---- MODULE Spec2Model ----
(***************************************************************************)
(* Thermo-Barista (src/main.py): Newton's law of cooling.                  *)
(*                                                                         *)
(* Python floats are modelled by a scaled-down binary floating-point       *)
(* format with the structure of IEEE-754 binary64: a mantissa of Prec      *)
(* bits, gradual underflow, round-to-nearest-even, overflow to infinity,   *)
(* the two infinities and NaN.  A finite float is the integer number of    *)
(* smallest-subnormal units it holds (1.0 is One units); the specials are  *)
(* integers outside the finite range.  The sign of zero is not kept: no    *)
(* comparison, truth test or function of the program tells -0.0 from 0.0   *)
(* (1/k is only evaluated for k > 0).                                      *)
(***************************************************************************)
EXTENDS Integers, Sequences, FiniteSets, TLC

\* ------------------------------------------------------------------------
\* The float format
\* ------------------------------------------------------------------------
Prec == 7
ExpRange == 11
FracBits == 6

\* e evaluated once and named v in Body
Let(e, Body(_)) == CHOOSE r \in {Body(v) : v \in {e}} : TRUE

Pow2[n \in Int] == IF n <= 0 THEN 1 ELSE 2 * Pow2[n - 1]

One == Pow2[FracBits]
MantLimit == Pow2[Prec]
MaxFin == (MantLimit - 1) * Pow2[ExpRange]
PosInf == 4 * MaxFin
NegInf == -PosInf
NaN == PosInf + 1

IsNaN(x) == x = NaN
IsInf(x) == x = PosInf \/ x = NegInf
IsFinite(x) == ~IsNaN(x) /\ ~IsInf(x)
Abs(n) == IF n < 0 THEN -n ELSE n
Sign(n) == IF n < 0 THEN -1 ELSE IF n > 0 THEN 1 ELSE 0

\* The binade of a non-negative integer quotient: the least j with q < 2^(Prec+j).
Binade[q \in Int] == IF q < MantLimit THEN 0 ELSE 1 + Binade[q \div 2]

\* The representable finite floats: m * 2^j units, m < 2^Prec, j <= ExpRange.
Representable(x) == Abs(x) <= MaxFin /\ Abs(x) % Pow2[Binade[Abs(x)]] = 0

\* n/d units rounded to a multiple of the spacing p of its binade (p = 2^j):
\* to the nearest, ties to the even mantissa; PosInf past the largest float.
RoundTo[n \in Int, d \in Int, p \in Int] ==
    LET m == n \div (d * p)
        rem == n % (d * p)
        up == (2 * rem > d * p) \/ (2 * rem = d * p /\ m % 2 = 1)
        r == (IF up THEN m + 1 ELSE m) * p
    IN  IF r > MaxFin THEN PosInf ELSE r

\* n/d units (n >= 0, d > 0) rounded to the nearest float.
RoundMag[n \in Int, d \in Int] == RoundTo[n, d, Pow2[Binade[n \div d]]]

\* The signed rational s * n/d units rounded to a float.
RoundF[s \in Int, n \in Int, d \in Int] ==
    IF s < 0 THEN -RoundMag[n, d] ELSE RoundMag[n, d]

\* ------------------------------------------------------------------------
\* Float arithmetic and comparisons (Python's +, -, *, /, <, <=, unary -)
\* ------------------------------------------------------------------------
FromInt(i) == i * One

FLt(a, b) == ~IsNaN(a) /\ ~IsNaN(b) /\ a < b
FLe(a, b) == ~IsNaN(a) /\ ~IsNaN(b) /\ a <= b
FEq(a, b) == ~IsNaN(a) /\ ~IsNaN(b) /\ a = b

FNeg[a \in Int] == IF IsNaN(a) THEN NaN ELSE -a

FAdd[a \in Int, b \in Int] ==
    IF IsNaN(a) \/ IsNaN(b) THEN NaN
    ELSE IF IsInf(a) /\ IsInf(b) THEN (IF a = b THEN a ELSE NaN)
    ELSE IF IsInf(a) THEN a
    ELSE IF IsInf(b) THEN b
    ELSE RoundF[Sign(a + b), Abs(a + b), 1]

FSub[a \in Int, b \in Int] == FAdd[a, FNeg[b]]

FMul[a \in Int, b \in Int] ==
    IF IsNaN(a) \/ IsNaN(b) THEN NaN
    ELSE IF IsInf(a) \/ IsInf(b)
         THEN (IF a = 0 \/ b = 0 THEN NaN
               ELSE IF Sign(a) * Sign(b) < 0 THEN NegInf ELSE PosInf)
    ELSE IF a = 0 \/ b = 0 THEN 0
    ELSE IF Abs(a) > (2 * MaxFin * One) \div Abs(b)
         THEN (IF Sign(a) * Sign(b) < 0 THEN NegInf ELSE PosInf)
    ELSE RoundF[Sign(a) * Sign(b), Abs(a) * Abs(b), One]

\* a / b for b # 0 (Python raises ZeroDivisionError for b = 0; the callers
\* test the divisor first).
FDiv[a \in Int, b \in Int] ==
    IF IsNaN(a) \/ IsNaN(b) THEN NaN
    ELSE IF IsInf(a) THEN (IF IsInf(b) THEN NaN
                           ELSE IF Sign(a) * Sign(b) < 0 THEN NegInf ELSE PosInf)
    ELSE IF IsInf(b) THEN 0
    ELSE RoundF[Sign(a) * Sign(b), Abs(a) * One, Abs(b)]

\* Python's min(a, b) and max(a, b): the first argument unless the second
\* is strictly smaller (larger).
PyMin[a \in Int, b \in Int] == IF FLt(b, a) THEN b ELSE a
PyMax[a \in Int, b \in Int] == IF FLt(a, b) THEN b ELSE a

\* ------------------------------------------------------------------------
\* math.exp and math.log: computed in fixed point at scale 2^15 and rounded
\* to the float format (within one unit in the last place, as the C library's)
\* ------------------------------------------------------------------------
Scale == Pow2[15]
Ln2Scaled == 22713
Sqrt2Scaled == 46341

BitLen[n \in Int] == IF n <= 0 THEN 0 ELSE 1 + BitLen[n \div 2]

\* 2 * atanh(z) for z at scale 2^15, |z| < 0.18: 2z(1 + z^2/3 + ... + z^8/9)
TwoAtanh[z \in Int, z2 \in Int] ==
    LET p4 == Scale \div 9
        p3 == Scale \div 7 + (z2 * p4) \div Scale
        p2 == Scale \div 5 + (z2 * p3) \div Scale
        p1 == Scale \div 3 + (z2 * p2) \div Scale
        p0 == Scale + (z2 * p1) \div Scale
    IN  (2 * z * p0) \div Scale

\* ln(f * 2^e) at scale 2^15, for f at scale 2^15 in [sqrt(1/2), sqrt(2)]
LnParts[f \in Int, e \in Int] ==
    Let((Abs(f - Scale) * Scale) \div (f + Scale), LAMBDA z :
        e * Ln2Scaled
        + (IF f < Scale THEN -1 ELSE 1) * TwoAtanh[z, (z * z) \div Scale])

\* x of bit length hi + 1 as f * 2^e
LnNorm[x \in Int, hi \in Int] ==
    Let(IF hi <= 15 THEN x * Pow2[15 - hi] ELSE x \div Pow2[hi - 15], LAMBDA f :
        IF f > Sqrt2Scaled THEN LnParts[f \div 2, hi - FracBits + 1]
        ELSE LnParts[f, hi - FracBits])

\* ln of a finite x > 0, as a signed integer at scale 2^15
LnScaled[x \in Int] == LnNorm[x, BitLen[x] - 1]

\* math.log raises ValueError ("math domain error") for x <= 0
LogRaises(x) == ~IsNaN(x) /\ x <= 0

Log[x \in Int] ==
    IF IsNaN(x) THEN NaN
    ELSE IF x = PosInf THEN PosInf
    ELSE Let(LnScaled[x], LAMBDA l : RoundF[Sign(l), Abs(l), Scale \div One])

\* exp(r) at scale 2^15 for r at scale 2^15, |r| <= ln(2)/2: the series to r^7/7!
ExpSeries[r \in Int] ==
    LET h6 == Scale + (r * Scale) \div (7 * Scale)
        h5 == Scale + (r * h6) \div (6 * Scale)
        h4 == Scale + (r * h5) \div (5 * Scale)
        h3 == Scale + (r * h4) \div (4 * Scale)
        h2 == Scale + (r * h3) \div (3 * Scale)
        h1 == Scale + (r * h2) \div (2 * Scale)
    IN  Scale + (r * h1) \div Scale

\* exp(v) for v at scale 2^15 as mant * 2^sh units, v = n * ln(2) + r
ExpReduce[v \in Int, n \in Int] ==
    [mant |-> ExpSeries[v - n * Ln2Scaled], sh |-> n + FracBits - 15]

ExpParts[x \in Int] ==
    ExpReduce[x * (Scale \div One),
              (x * (Scale \div One) + Ln2Scaled \div 2) \div Ln2Scaled]

\* mant * 2^sh units rounded to a float
ExpRound[mant \in Int, sh \in Int] ==
    IF sh > Prec + ExpRange - 13 THEN PosInf
    ELSE IF sh >= 0 THEN RoundMag[mant * Pow2[sh], 1]
    ELSE IF -sh > 20 THEN 0
    ELSE RoundMag[mant, Pow2[-sh]]

\* exp(x) rounded, PosInf when it exceeds the largest finite float
ExpValue[x \in Int] ==
    IF IsNaN(x) THEN NaN
    ELSE IF x = PosInf THEN PosInf
    ELSE IF x = NegInf THEN 0
    ELSE Let(ExpParts[x], LAMBDA ps : ExpRound[ps.mant, ps.sh])

\* math.exp raises OverflowError ("math range error") when the result of a
\* finite argument exceeds the largest finite float
ExpRaises(x) == IsFinite(x) /\ ExpValue[x] = PosInf

Exp[x \in Int] == ExpValue[x]

\* ------------------------------------------------------------------------
\* float(input(prompt)): the text of an entry parsed to a float.  An entry
\* is a sequence of characters.  The grammar covered: an optional sign, then
\* "inf", "nan", or decimal digits with an optional fraction point; any
\* other text raises ValueError.
\* ------------------------------------------------------------------------
Digits == <<"0", "1", "2", "3", "4", "5", "6", "7", "8", "9">>
IsDigit(c) == \E i \in 1..10 : Digits[i] = c
DigitVal(c) == (CHOOSE i \in 1..10 : Digits[i] = c) - 1

DigitsVal[cs \in Seq(STRING)] ==
    IF cs = <<>> THEN 0
    ELSE 10 * DigitsVal[SubSeq(cs, 1, Len(cs) - 1)] + DigitVal(cs[Len(cs)])

Pow10[n \in Int] == IF n <= 0 THEN 1 ELSE 10 * Pow10[n - 1]

HasSign(cs) == Len(cs) > 0 /\ cs[1] \in {"+", "-"}
Unsigned(cs) == IF HasSign(cs) THEN Tail(cs) ELSE cs
EntrySign(cs) == IF Len(cs) > 0 /\ cs[1] = "-" THEN -1 ELSE 1
PointAt(cs) == {i \in 1..Len(cs) : cs[i] = "."}
WithoutPoint(cs) == SelectSeq(cs, LAMBDA c : c # ".")
FractionDigits(cs) ==
    IF PointAt(cs) = {} THEN 0 ELSE Len(cs) - (CHOOSE i \in PointAt(cs) : TRUE)

IsDecimal(cs) ==
    /\ Cardinality(PointAt(cs)) <= 1
    /\ Len(WithoutPoint(cs)) >= 1
    /\ \A i \in 1..Len(cs) : cs[i] = "." \/ IsDigit(cs[i])

\* float(text) succeeds
ParseOk(cs) ==
    \/ Unsigned(cs) = <<"i", "n", "f">>
    \/ Unsigned(cs) = <<"n", "a", "n">>
    \/ IsDecimal(Unsigned(cs))

\* float(text), for a text that parses: the nearest float to the decimal
ParseFloat(cs) ==
    IF Unsigned(cs) = <<"n", "a", "n">> THEN NaN
    ELSE IF Unsigned(cs) = <<"i", "n", "f">>
         THEN (IF EntrySign(cs) < 0 THEN NegInf ELSE PosInf)
    ELSE RoundF[EntrySign(cs), DigitsVal[WithoutPoint(Unsigned(cs))] * One,
                Pow10[FractionDigits(Unsigned(cs))]]

\* ------------------------------------------------------------------------
\* Values of the program: what a call returns or raises
\* ------------------------------------------------------------------------
Unset == NaN + 1
Value(x) == [tag |-> "float", val |-> x]
None == [tag |-> "None", val |-> 0]
Raise(e) == [tag |-> e, val |-> 0]
NotCalled == [tag |-> "unset", val |-> 0]
Exceptions == {"ValueError", "ZeroDivisionError", "OverflowError"}
Raised(r) == r.tag \in Exceptions

\* Python's truth test of a result: None and 0.0 are false, every other
\* float (NaN and the infinities included) is true.
Truthy(r) == r.tag = "float" /\ r.val # 0

\* ------------------------------------------------------------------------
\* class CoolingCalculator
\* ------------------------------------------------------------------------
CoolingCalculator(a, b, c) == [t0 |-> a, ts |-> b, k |-> c]
NoCalc == CoolingCalculator(Unset, Unset, Unset)

\* Variant: the curve written from the wrong end,
\* self.t0 + (self.ts - self.t0) * math.exp(-self.k * t)
calculate_at_time_from_ts(self, t) ==
    Let(FMul[FNeg[self.k], t], LAMBDA e :
        IF ExpRaises(e) THEN Raise("OverflowError")
        ELSE Value(FAdd[self.t0, FMul[FSub[self.ts, self.t0], Exp[e]]]))

\* return self.ts + (self.t0 - self.ts) * math.exp(-self.k * t)
calculate_at_time(self, t) ==
    Let(FMul[FNeg[self.k], t], LAMBDA e :
        IF ExpRaises(e) THEN Raise("OverflowError")
        ELSE Value(FAdd[self.ts, FMul[FSub[self.t0, self.ts], Exp[e]]]))

\* Variant: the range check with <= in place of <, so that a target equal
\* to t0 or to ts goes on to the formula.
calculate_time_to_target_inclusive(self, target) ==
    IF FLe(self.k, 0) THEN None
    ELSE IF ~(FLe(PyMin[self.t0, self.ts], target)
              /\ FLe(target, PyMax[self.t0, self.ts])) THEN None
    ELSE IF FSub[self.t0, self.ts] = 0 THEN Raise("ZeroDivisionError")
    ELSE Let(FDiv[FSub[target, self.ts], FSub[self.t0, self.ts]], LAMBDA arg :
             IF LogRaises(arg) THEN Raise("ValueError")
             ELSE Value(FMul[FNeg[FDiv[One, self.k]], Log[arg]]))

\* Variant: the rate check with < in place of <=, so that k = 0 goes on to
\* 1/self.k.
calculate_time_to_target_negative_only(self, target) ==
    IF FLt(self.k, 0) THEN None
    ELSE IF ~(FLt(PyMin[self.t0, self.ts], target)
              /\ FLt(target, PyMax[self.t0, self.ts])) THEN None
    ELSE IF FSub[self.t0, self.ts] = 0 \/ self.k = 0 THEN Raise("ZeroDivisionError")
    ELSE Let(FDiv[FSub[target, self.ts], FSub[self.t0, self.ts]], LAMBDA arg :
             IF LogRaises(arg) THEN Raise("ValueError")
             ELSE Value(FMul[FNeg[FDiv[One, self.k]], Log[arg]]))

\* The two early returns, then
\* return -(1/self.k) * math.log((target_t - self.ts) / (self.t0 - self.ts))
\* (1/self.k cannot divide by zero: k <= 0 has returned)
calculate_time_to_target(self, target) ==
    IF FLe(self.k, 0) THEN None
    ELSE IF ~(FLt(PyMin[self.t0, self.ts], target)
              /\ FLt(target, PyMax[self.t0, self.ts])) THEN None
    ELSE IF FSub[self.t0, self.ts] = 0 THEN Raise("ZeroDivisionError")
    ELSE Let(FDiv[FSub[target, self.ts], FSub[self.t0, self.ts]], LAMBDA arg :
             IF LogRaises(arg) THEN Raise("ValueError")
             ELSE Value(FMul[FNeg[FDiv[One, self.k]], Log[arg]]))

\* ------------------------------------------------------------------------
\* class CLIHandler
\* ------------------------------------------------------------------------
\* A line written to the console: what it is and the number it shows.
Line(what, v) == [line |-> what, val |-> v]
Count(lines, what) == Cardinality({i \in 1..Len(lines) : lines[i].line = what})

\* Variant: an entry that fails to parse is answered with the warning and
\* 0.0 is returned for it.
InputFloatDefaulting(prompt, cs) ==
    IF ParseOk(cs)
    THEN [ok |-> TRUE, val |-> ParseFloat(cs), lines |-> <<Line(prompt, 0)>>]
    ELSE [ok |-> TRUE, val |-> 0,
          lines |-> <<Line(prompt, 0), Line("invalid_number", 0)>>]

\* One pass of _input_float's loop on the entry cs: the prompt is shown, the
\* text is parsed; a ValueError prints the warning and the loop goes round.
InputFloat(prompt, cs) ==
    IF ParseOk(cs)
    THEN [ok |-> TRUE, val |-> ParseFloat(cs), lines |-> <<Line(prompt, 0)>>]
    ELSE [ok |-> FALSE, val |-> Unset,
          lines |-> <<Line(prompt, 0), Line("invalid_number", 0)>>]

TipLines ==
    <<Line("tip", 0), Line("tip_mug", 0), Line("tip_paper_cup", 0),
      Line("tip_tumbler", 0)>>

\* f"{x:.2f}": x in hundredths, rounded half to even; inf and nan print as
\* themselves.
Format2f(x) ==
    IF ~IsFinite(x) THEN x
    ELSE LET q == (Abs(x) * 100) \div One
             rem == (Abs(x) * 100) % One
             up == (2 * rem > One) \/ (2 * rem = One /\ q % 2 = 1)
         IN  Sign(x) * (IF up THEN q + 1 ELSE q)

display_results(d_t0, d_ts, d_target, d_time) ==
    <<Line("rule", 0), Line("title", 0), Line("dash", 0),
      Line("drink_temperature", d_t0), Line("room_temperature", d_ts),
      Line("proper_temperature", d_target),
      Line("golden_time", Format2f(d_time)), Line("rule", 0)>>

NumSamples == 100
LastSample == 99
OnePointFive == (3 * One) \div 2

\* Variant: the times divided by 100 in place of 99.
PlotTimesOver100(p_time) ==
    Let(FMul[p_time, OnePointFive], LAMBDA span :
        [i \in 1..NumSamples |-> FDiv[FMul[FromInt(i - 1), span], FromInt(NumSamples)]])

\* times = [i * (target_time * 1.5) / 99 for i in range(100)]
PlotTimes(p_time) ==
    Let(FMul[p_time, OnePointFive], LAMBDA span :
        [i \in 1..NumSamples |-> FDiv[FMul[FromInt(i - 1), span], FromInt(LastSample)]])

\* temps = [calculator.calculate_at_time(t) for t in times]: each call's result
PlotTemps(calculator, ptimes) ==
    [i \in 1..Len(ptimes) |-> calculate_at_time(calculator, ptimes[i])]

\* What plot_cooling_curve hands to plt.plot, and the exception that ends it
\* if a calculate_at_time call raises (the first one to raise).
PlotData(ptimes, res) ==
    Let({i \in 1..Len(res) : Raised(res[i])}, LAMBDA bad :
        IF bad = {}
        THEN [ret |-> None, times |-> ptimes,
              temps |-> [i \in 1..Len(res) |-> res[i].val]]
        ELSE [ret |-> res[CHOOSE i \in bad : \A j \in bad : i <= j],
              times |-> ptimes, temps |-> <<>>])

plot_cooling_curve(calculator, p_target, p_time) ==
    Let(PlotTimes(p_time), LAMBDA ptimes :
        Let(PlotTemps(calculator, ptimes), LAMBDA res : PlotData(ptimes, res)))

\* ------------------------------------------------------------------------
\* State
\* ------------------------------------------------------------------------
VARIABLES
    pc,            \* where main() is; "api" when the classes are called directly
    t0, ts, k, target_t,   \* main's locals read by get_user_input (Unset before)
    calc,          \* the CoolingCalculator object (NoCalc before construction)
    target_time,   \* main's local: what calculate_time_to_target returned
    out,           \* the console: the lines printed
    typed,         \* the entries typed at the prompts, in order
    calls,         \* the calls made: [op, args, ret]
    ncalls,        \* how many calls were made
    times, temps   \* the data handed to plt.plot by plot_cooling_curve

vars == <<pc, t0, ts, k, target_t, calc, target_time, out, typed, calls, ncalls,
          times, temps>>

Call(name, arguments, result) == [op |-> name, args |-> arguments, ret |-> result]

\* Bound on the entries that fail to parse in one run (the loop itself is
\* unbounded).
MaxInvalid == 2

Txt80 == <<"8", "0">>
Txt20 == <<"2", "0">>
Txt40 == <<"4", "0">>
Txt90 == <<"9", "0">>
Txt79 == <<"7", "9">>
Txt4000 == <<"4", "0", "0", "0">>
TxtMinus4000 == <<"-", "4", "0", "0", "0">>
TxtMinus1 == <<"-", "1">>
Txt0 == <<"0">>
TxtRate == <<"0", ".", "0", "5">>
TxtInf == <<"i", "n", "f">>
TxtNan == <<"n", "a", "n">>
TxtWord == <<"a", "b", "c">>
TxtEmpty == <<>>
TxtTwoPoints == <<"1", ".", "2", ".", "3">>

T0Entries == {Txt80, Txt20, Txt4000, TxtNan, TxtWord}
TsEntries == {Txt20, Txt80, TxtMinus4000, TxtEmpty}
KEntries == {TxtRate, Txt0, TxtMinus1, TxtInf, TxtNan, Txt4000, TxtTwoPoints}
TargetEntries == {Txt40, Txt90, Txt80, Txt20, Txt79, TxtWord}

Invalid == Count(out, "invalid_number")

\* ------------------------------------------------------------------------
\* main(): get_user_input, then the calculation, then the output
\* ------------------------------------------------------------------------
Init ==
    /\ pc = "main"
    /\ t0 = Unset /\ ts = Unset /\ k = Unset /\ target_t = Unset
    /\ calc = NoCalc
    /\ target_time = NotCalled
    /\ out = <<>> /\ typed = <<>> /\ calls = <<>> /\ ncalls = 0
    /\ times = <<>> /\ temps = <<>>

\* get_user_input begins: the banner
get_user_input ==
    /\ pc = "main"
    /\ out' = Append(out, Line("banner", 0))
    /\ pc' = "read_t0"
    /\ UNCHANGED <<t0, ts, k, target_t, calc, target_time, typed, calls, ncalls,
                   times, temps>>

read_t0 ==
    /\ pc = "read_t0"
    /\ \E cs \in T0Entries : \E r \in {InputFloat("prompt_t0", cs)} :
         /\ r.ok \/ Invalid < MaxInvalid
         /\ typed' = Append(typed, [field |-> "t0", text |-> cs])
         /\ out' = out \o r.lines
         /\ t0' = r.val
         /\ pc' = IF r.ok THEN "read_ts" ELSE pc
    /\ UNCHANGED <<ts, k, target_t, calc, target_time, calls, ncalls, times, temps>>

\* the room temperature, then the tips printed before the next prompt
read_ts ==
    /\ pc = "read_ts"
    /\ \E cs \in TsEntries : \E r \in {InputFloat("prompt_ts", cs)} :
         /\ r.ok \/ Invalid < MaxInvalid
         /\ typed' = Append(typed, [field |-> "ts", text |-> cs])
         /\ out' = out \o r.lines \o (IF r.ok THEN TipLines ELSE <<>>)
         /\ ts' = r.val
         /\ pc' = IF r.ok THEN "read_k" ELSE pc
    /\ UNCHANGED <<t0, k, target_t, calc, target_time, calls, ncalls, times, temps>>

read_k ==
    /\ pc = "read_k"
    /\ \E cs \in KEntries : \E r \in {InputFloat("prompt_k", cs)} :
         /\ r.ok \/ Invalid < MaxInvalid
         /\ typed' = Append(typed, [field |-> "k", text |-> cs])
         /\ out' = out \o r.lines
         /\ k' = r.val
         /\ pc' = IF r.ok THEN "read_target_t" ELSE pc
    /\ UNCHANGED <<t0, ts, target_t, calc, target_time, calls, ncalls, times, temps>>

read_target_t ==
    /\ pc = "read_target_t"
    /\ \E cs \in TargetEntries : \E r \in {InputFloat("prompt_target_t", cs)} :
         /\ r.ok \/ Invalid < MaxInvalid
         /\ typed' = Append(typed, [field |-> "target_t", text |-> cs])
         /\ out' = out \o r.lines
         /\ target_t' = r.val
         /\ pc' = IF r.ok THEN "construct" ELSE pc
    /\ UNCHANGED <<t0, ts, k, calc, target_time, calls, ncalls, times, temps>>

\* calc = CoolingCalculator(t0, ts, k)
construct ==
    /\ pc = "construct"
    /\ calc' = CoolingCalculator(t0, ts, k)
    /\ calls' = Append(calls, Call("CoolingCalculator", <<t0, ts, k>>, None))
    /\ ncalls' = ncalls + 1
    /\ pc' = "calculate"
    /\ UNCHANGED <<t0, ts, k, target_t, target_time, out, typed, times, temps>>

\* target_time = calc.calculate_time_to_target(target_t); an exception is
\* not caught and ends main
calculate ==
    /\ pc = "calculate"
    /\ \E r \in {calculate_time_to_target(calc, target_t)} :
         /\ target_time' = r
         /\ calls' = Append(calls, Call("calculate_time_to_target", <<target_t>>, r))
         /\ pc' = IF Raised(r) THEN "raised" ELSE "output"
    /\ ncalls' = ncalls + 1
    /\ UNCHANGED <<t0, ts, k, target_t, calc, out, typed, times, temps>>

\* Variant: the failure message is printed twice.
output_failure_twice ==
    /\ pc = "output"
    /\ IF Truthy(target_time)
       THEN /\ out' = out \o display_results(t0, ts, target_t, target_time.val)
            /\ calls' = Append(calls, Call("display_results",
                                 <<t0, ts, target_t, target_time.val>>, None))
            /\ ncalls' = ncalls + 1
            /\ pc' = "plot"
       ELSE /\ out' = out \o <<Line("failure", 0), Line("failure", 0)>>
            /\ calls' = calls
            /\ ncalls' = ncalls
            /\ pc' = "done"
    /\ UNCHANGED <<t0, ts, k, target_t, calc, target_time, typed, times, temps>>

\* if target_time: display_results(...) else: print(the failure message)
output ==
    /\ pc = "output"
    /\ IF Truthy(target_time)
       THEN /\ out' = out \o display_results(t0, ts, target_t, target_time.val)
            /\ calls' = Append(calls, Call("display_results",
                                 <<t0, ts, target_t, target_time.val>>, None))
            /\ ncalls' = ncalls + 1
            /\ pc' = "plot"
       ELSE /\ out' = Append(out, Line("failure", 0))
            /\ calls' = calls
            /\ ncalls' = ncalls
            /\ pc' = "done"
    /\ UNCHANGED <<t0, ts, k, target_t, calc, target_time, typed, times, temps>>

\* plot_cooling_curve(calc, target_t, target_time)
plot ==
    /\ pc = "plot"
    /\ \E r \in {plot_cooling_curve(calc, target_t, target_time.val)} :
         /\ times' = r.times
         /\ temps' = r.temps
         /\ calls' = Append(calls, Call("plot_cooling_curve",
                              <<target_t, target_time.val>>, r.ret))
         /\ pc' = IF Raised(r.ret) THEN "raised" ELSE "done"
    /\ ncalls' = ncalls + 1
    /\ UNCHANGED <<t0, ts, k, target_t, calc, target_time, out, typed>>

Next ==
    \/ get_user_input
    \/ read_t0
    \/ read_ts
    \/ read_k
    \/ read_target_t
    \/ construct
    \/ calculate
    \/ output
    \/ plot

Spec == Init /\ [][Next]_vars

\* ------------------------------------------------------------------------
\* The classes called directly: a CoolingCalculator is constructed and any
\* of its methods and of CLIHandler's are called on it, in any order.  The
\* console, the plot data and `calls` hold what the latest call produced.
\* ------------------------------------------------------------------------
MaxCalls == 2

T0Vals == {FromInt(80), FromInt(20), FromInt(4000), 1}
TsVals == {FromInt(20), FromInt(80), -FromInt(4000), NaN}
KVals == {3, 0, -One, FromInt(4000), PosInf, NaN}
TargetVals == {FromInt(40), FromInt(90), FromInt(80), FromInt(20), FromInt(79), NaN}
TimeVals == {0, One, FromInt(17)}

CalcInit ==
    /\ pc = "api"
    /\ t0 = Unset /\ ts = Unset /\ k = Unset /\ target_t = Unset
    /\ calc \in {CoolingCalculator(a, b, c) : a \in T0Vals, b \in TsVals, c \in KVals}
    /\ target_time = NotCalled
    /\ out = <<>> /\ typed = <<>> /\ calls = <<>> /\ ncalls = 0
    /\ times = <<>> /\ temps = <<>>

api_calculate_at_time ==
    /\ pc = "api" /\ ncalls < MaxCalls
    /\ \E t \in TimeVals :
         calls' = <<Call("calculate_at_time", <<t>>, calculate_at_time(calc, t))>>
    /\ ncalls' = ncalls + 1
    /\ out' = <<>> /\ times' = <<>> /\ temps' = <<>>
    /\ UNCHANGED <<pc, t0, ts, k, target_t, calc, target_time, typed>>

\* Variant: calculate_time_to_target keeps the target it was asked for as
\* the object's new starting temperature.
api_calculate_time_to_target_storing ==
    /\ pc = "api" /\ ncalls < MaxCalls
    /\ \E target \in TargetVals :
         /\ calls' = <<Call("calculate_time_to_target", <<target>>,
                            calculate_time_to_target(calc, target))>>
         /\ calc' = [calc EXCEPT !.t0 = target]
    /\ ncalls' = ncalls + 1
    /\ out' = <<>> /\ times' = <<>> /\ temps' = <<>>
    /\ UNCHANGED <<pc, t0, ts, k, target_t, target_time, typed>>

api_calculate_time_to_target ==
    /\ pc = "api" /\ ncalls < MaxCalls
    /\ \E target \in TargetVals :
         calls' = <<Call("calculate_time_to_target", <<target>>,
                         calculate_time_to_target(calc, target))>>
    /\ ncalls' = ncalls + 1
    /\ out' = <<>> /\ times' = <<>> /\ temps' = <<>>
    /\ UNCHANGED <<pc, t0, ts, k, target_t, calc, target_time, typed>>

\* calculate_at_time(the time calculate_time_to_target has just returned)
api_round_trip ==
    /\ pc = "api" /\ ncalls < MaxCalls
    /\ Len(calls) = 1
    /\ calls[1].op = "calculate_time_to_target"
    /\ calls[1].ret.tag = "float"
    /\ calls' = Append(calls, Call("calculate_at_time", <<calls[1].ret.val>>,
                                   calculate_at_time(calc, calls[1].ret.val)))
    /\ ncalls' = ncalls + 1
    /\ out' = <<>> /\ times' = <<>> /\ temps' = <<>>
    /\ UNCHANGED <<pc, t0, ts, k, target_t, calc, target_time, typed>>

api_display_results ==
    /\ pc = "api" /\ ncalls < MaxCalls
    /\ \E d_target \in {FromInt(40)}, d_time \in {FromInt(16), PosInf} :
         /\ out' = display_results(calc.t0, calc.ts, d_target, d_time)
         /\ calls' = <<Call("display_results",
                            <<calc.t0, calc.ts, d_target, d_time>>, None)>>
    /\ ncalls' = ncalls + 1
    /\ times' = <<>> /\ temps' = <<>>
    /\ UNCHANGED <<pc, t0, ts, k, target_t, calc, target_time, typed>>

\* plot_cooling_curve(calc, 40.0, p_time) and what it leaves
PlotCall(p_time) ==
    \E r \in {plot_cooling_curve(calc, FromInt(40), p_time)} :
       /\ times' = r.times
       /\ temps' = r.temps
       /\ calls' = <<Call("plot_cooling_curve", <<FromInt(40), p_time>>, r.ret)>>
       /\ ncalls' = ncalls + 1
       /\ out' = <<>>
       /\ UNCHANGED <<pc, t0, ts, k, target_t, calc, target_time, typed>>

api_plot_cooling_curve ==
    /\ pc = "api" /\ ncalls < MaxCalls
    /\ PlotCall(FromInt(16))

CalcNext ==
    \/ api_calculate_at_time
    \/ api_calculate_time_to_target
    \/ api_round_trip
    \/ api_display_results
    \/ api_plot_cooling_curve

CalcSpec == CalcInit /\ [][CalcNext]_vars

\* ------------------------------------------------------------------------
\* plot_cooling_curve called directly, for any positive target time: on
\* calculators main can pass to it (k > 0: main plots only after a time was
\* returned) and on one with a negative k.
\* ------------------------------------------------------------------------
PlotCalcs ==
    {CoolingCalculator(FromInt(80), FromInt(20), 3),
     CoolingCalculator(FromInt(20), FromInt(80), One),
     CoolingCalculator(FromInt(80), FromInt(20), PosInf),
     CoolingCalculator(FromInt(80), FromInt(20), -One)}

PlotTimeVals ==
    (1..12) \cup {FromInt(i) : i \in {1, 2, 3, 5, 15, 16, 18, 27, 40, 41, 3000}}
            \cup {MaxFin, PosInf}

PlotInit ==
    /\ pc = "plotting"
    /\ t0 = Unset /\ ts = Unset /\ k = Unset /\ target_t = Unset
    /\ calc \in PlotCalcs
    /\ target_time = NotCalled
    /\ out = <<>> /\ typed = <<>> /\ calls = <<>> /\ ncalls = 0
    /\ times = <<>> /\ temps = <<>>

plot_any_time ==
    /\ pc = "plotting" /\ ncalls < MaxCalls
    /\ \E p_time \in PlotTimeVals : PlotCall(p_time)

PlotNext == plot_any_time

PlotSpec == PlotInit /\ [][PlotNext]_vars

\* ========================================================================
\* Properties
\* ========================================================================
CallsOf(name) == {i \in 1..Len(calls) : calls[i].op = name}

\* x lies strictly between a and b, whichever of the two is the larger
StrictlyBetween(x, a, b) ==
    /\ ~IsNaN(x) /\ ~IsNaN(a) /\ ~IsNaN(b)
    /\ (a < x /\ x < b) \/ (b < x /\ x < a)

\* C1: calculate_time_to_target returns None whenever the target is not
\* strictly between min(t0, ts) and max(t0, ts): equal to t0, equal to ts,
\* outside the two, and for every target when t0 = ts.
C1_BoundaryRejection ==
    \A i \in CallsOf("calculate_time_to_target") :
        ~StrictlyBetween(calls[i].args[1], calc.t0, calc.ts) => calls[i].ret = None

\* a target equal to t0, or any target with t0 = ts, was rejected for a
\* positive rate constant
C1_Witness ==
    /\ Len(calls) = 1
    /\ calls[1].op = "calculate_time_to_target"
    /\ calls[1].args[1] = calc.t0
    /\ FLt(0, calc.k)
    /\ calls[1].ret = None

\* C2: calculate_time_to_target returns None when k is zero or negative,
\* whatever the other parameters, a target strictly between t0 and ts included.
C2_RateRejection ==
    \A i \in CallsOf("calculate_time_to_target") :
        FLe(calc.k, 0) => calls[i].ret = None

C2_Witness ==
    /\ Len(calls) = 1
    /\ calls[1].op = "calculate_time_to_target"
    /\ calc.k = 0
    /\ StrictlyBetween(calls[1].args[1], calc.t0, calc.ts)
    /\ calls[1].ret = None

\* C3: calculate_time_to_target never raises.  With k > 0 and the target
\* strictly between t0 and ts the divisor t0 - ts is not zero, the argument
\* of the logarithm is strictly between 0 and 1, and a time is returned.
C3_NeverRaises ==
    target_time # NotCalled =>
        /\ ~Raised(target_time)
        /\ (FLt(0, calc.k) /\ StrictlyBetween(target_t, calc.t0, calc.ts)) =>
             /\ FSub[calc.t0, calc.ts] # 0
             /\ FLt(0, FDiv[FSub[target_t, calc.ts], FSub[calc.t0, calc.ts]])
             /\ FLt(FDiv[FSub[target_t, calc.ts], FSub[calc.t0, calc.ts]], One)
             /\ target_time.tag = "float"

\* Within the tolerance of the round trip.  The claim's 1e-9 is some 10^7
\* roundings of a double; in this format, where one rounding is 2^-Prec, an
\* eighth (absolute or relative) stands for it.
WithinTolerance(a, b) ==
    /\ IsFinite(a) /\ IsFinite(b)
    /\ \/ 8 * Abs(a - b) <= One
       \/ 8 * Abs(a - b) <= (IF Abs(a) > Abs(b) THEN Abs(a) ELSE Abs(b))

\* C4: round trip.  For k > 0 and a target strictly between t0 and ts,
\* calculate_at_time(calculate_time_to_target(target)) is the target within
\* the tolerance.
C4_RoundTrip ==
    (/\ Len(calls) >= 1
     /\ calls[1].op = "calculate_time_to_target"
     /\ FLt(0, calc.k)
     /\ StrictlyBetween(calls[1].args[1], calc.t0, calc.ts))
    => /\ calls[1].ret.tag = "float"
       /\ Len(calls) = 2 =>
            /\ calls[2].ret.tag = "float"
            /\ WithinTolerance(calls[2].ret.val, calls[1].args[1])

\* C5: when calculate_time_to_target returned None, main prints the failure
\* message once and ends: no table, no display_results, no plot, no
\* exception.
C5_FailureMessageOnly ==
    target_time = None =>
        /\ pc \in {"output", "done"}
        /\ CallsOf("display_results") = {}
        /\ CallsOf("plot_cooling_curve") = {}
        /\ Count(out, "golden_time") = 0
        /\ times = <<>> /\ temps = <<>>
        /\ Count(out, "failure") = (IF pc = "done" THEN 1 ELSE 0)
        /\ pc = "done" => out[Len(out)] = Line("failure", 0)

C5_Witness ==
    /\ pc = "done"
    /\ target_time = None
    /\ Count(out, "failure") = 1
    /\ FLt(0, k)
\* C6: no operation changes the calculator's parameters: across any
\* sequence of calculate_at_time, calculate_time_to_target, display_results
\* and plot_cooling_curve calls t0, ts and k stay what the constructor was
\* given, and what a call returns is what the constructor's values and the
\* call's argument give, whatever was called before.
ResultOf(c, call) ==
    IF call.op = "calculate_at_time" THEN calculate_at_time(c, call.args[1])
    ELSE IF call.op = "calculate_time_to_target"
         THEN calculate_time_to_target(c, call.args[1])
    ELSE IF call.op = "plot_cooling_curve"
         THEN plot_cooling_curve(c, call.args[1], call.args[2]).ret
    ELSE None

C6_ParametersFixed ==
    [][/\ calc' = calc
       /\ \A i \in 1..Len(calls') : calls'[i].ret = ResultOf(calc, calls'[i])]_vars

\* a second call was made on a calculator, the plot among the calls
C6_Witness ==
    /\ pc = "api"
    /\ ncalls >= 2
    /\ Len(times) = NumSamples
    /\ calc = CoolingCalculator(FromInt(80), FromInt(20), 3)

\* C7 as stated: for every t0, ts and k, calculate_at_time(0) is t0 exactly.
C7_AtZeroAlways ==
    \A i \in CallsOf("calculate_at_time") :
        calls[i].args[1] = 0 => calls[i].ret = Value(calc.t0)

\* C7, amended: calculate_at_time(0) is t0 exactly when k is finite and
\* t0, ts are finite with t0 - ts computed without rounding or overflow;
\* there is no condition on the sign of k or on the order of t0 and ts.
C7_AtZeroExact ==
    \A i \in CallsOf("calculate_at_time") :
        (/\ calls[i].args[1] = 0
         /\ IsFinite(calc.k) /\ IsFinite(calc.t0) /\ IsFinite(calc.ts)
         /\ Representable(calc.t0 - calc.ts))
        => calls[i].ret = Value(calc.t0)

\* warming (t0 < ts) with a negative k
C7_Witness ==
    /\ Len(calls) = 1
    /\ calls[1].op = "calculate_at_time"
    /\ calls[1].args[1] = 0
    /\ calc = CoolingCalculator(FromInt(20), FromInt(80), -One)
    /\ calls[1].ret = Value(FromInt(20))

PlotCalls == {i \in CallsOf("plot_cooling_curve") : FLt(0, calls[i].args[2])}

NonNumeric == {TxtWord, TxtEmpty, TxtTwoPoints}
Fields == <<"t0", "ts", "k", "target_t">>
FieldValue(f) ==
    IF f = "t0" THEN t0 ELSE IF f = "ts" THEN ts ELSE IF f = "k" THEN k ELSE target_t
FieldRank(f) == CHOOSE i \in 1..4 : Fields[i] = f
EntriesOf(f) == SelectSeq(typed, LAMBDA e : e.field = f)
IsFloat(x) == IsFinite(x) \/ IsInf(x) \/ IsNaN(x)
FieldRead(f) ==
    EntriesOf(f) # <<>> /\ EntriesOf(f)[Len(EntriesOf(f))].text \notin NonNumeric

\* C9: a non-numeric entry never reaches the model: a field is prompted
\* again after every entry that fails to parse, _input_float returns only a
\* value that parsed, the fields are read in the order t0, ts, k, target,
\* and CoolingCalculator is constructed and calculate_time_to_target called
\* only after all four have parsed.
C9_OnlyParsedInput ==
    /\ \A f \in {"t0", "ts", "k", "target_t"} :
         /\ FieldValue(f) # Unset <=> FieldRead(f)
         /\ FieldValue(f) # Unset =>
              /\ IsFloat(FieldValue(f))
              /\ FieldValue(f) = ParseFloat(EntriesOf(f)[Len(EntriesOf(f))].text)
         /\ \A i \in 1..(Len(EntriesOf(f)) - 1) : EntriesOf(f)[i].text \in NonNumeric
         /\ Count(out, "prompt_" \o f) = Len(EntriesOf(f))
         /\ (pc = "read_" \o f) =>
              /\ FieldValue(f) = Unset
              /\ \A g \in {"t0", "ts", "k", "target_t"} :
                   FieldRank(g) < FieldRank(f) <=> FieldValue(g) # Unset
    /\ \A i, j \in 1..Len(typed) :
         i < j => FieldRank(typed[i].field) <= FieldRank(typed[j].field)
    /\ Invalid = Cardinality({i \in 1..Len(typed) : typed[i].text \in NonNumeric})
    /\ (calc # NoCalc \/ calls # <<>> \/ target_time # NotCalled) =>
         /\ \A f \in {"t0", "ts", "k", "target_t"} : FieldRead(f)
         /\ calc = CoolingCalculator(t0, ts, k)
         /\ IsFloat(calc.t0) /\ IsFloat(calc.ts) /\ IsFloat(calc.k)
         /\ calls[1] = Call("CoolingCalculator", <<t0, ts, k>>, None)
         /\ Len(calls) >= 2 =>
              /\ calls[2].op = "calculate_time_to_target"
              /\ calls[2].args = <<target_t>>
              /\ IsFloat(target_t)

\* a run in which two entries failed to parse, and the calculation was made
C9_Witness ==
    /\ pc = "done"
    /\ Invalid = 2
    /\ \E i \in 1..Len(typed) : typed[i] = [field |-> "t0", text |-> TxtWord]
    /\ \E i \in 1..Len(typed) : typed[i] = [field |-> "k", text |-> TxtTwoPoints]
    /\ calc = CoolingCalculator(FromInt(80), FromInt(20), 3)
    /\ target_time.tag = "float"

\* C10: main takes the failure branch if and only if calculate_time_to_target
\* returned None: for every time returned, main calls display_results with
\* the inputs and that time and then plot_cooling_curve, and does not print
\* the failure message.
C10_FailureOnlyOnNone ==
    pc = "done" =>
        IF target_time = None
        THEN Count(out, "failure") = 1 /\ Len(calls) = 2
        ELSE /\ Count(out, "failure") = 0
             /\ Len(calls) = 4
             /\ calls[3].op = "display_results"
             /\ {t0, ts, target_t, target_time.val}
                  \subseteq {calls[3].args[i] : i \in 1..Len(calls[3].args)}
             /\ calls[4].op = "plot_cooling_curve"
             /\ calls[4].args = <<target_t, target_time.val>>

====
